---- MODULE Spec2Model ----
(***************************************************************************)
(* Inverted-Index-Generator: the indexer (src/src/index.py) and the query  *)
(* engine (src/src/query.py).                                              *)
(*                                                                         *)
(* A Python str is a sequence of one-character strings.  A Python dict is  *)
(* a sequence of entries in insertion order (dict equality ignores the     *)
(* order).  None, where an integer docId is expected, is the number None.  *)
(***************************************************************************)
EXTENDS Integers, Sequences, FiniteSets, TLC

\* ------------------------------------------------------------- bounds
MaxDocs == 2        \* documents of a corpus
MaxKeys == 3        \* fields of a document (doc_id included)
MaxZoneLen == 3     \* characters of a zone's content
NumDocIds == 2      \* distinct integer identifiers a corpus draws from

\* docId = None (index.py line 28): outside every identifier drawn.
None == -1

\* identifiers with one and with two decimal digits
DocIds == 9 .. (8 + NumDocIds)

\* ------------------------------------------------------------- str
RawChars == {"A", "!", " "}

IsSpace(c) == c \in {" ", "\t", "\n"}

\* \w of the regular expression, on the characters used here
IsWordChar(c) == c \in {"a", "b", "A", "B", "_",
                        "0", "1", "2", "3", "4", "5", "6", "7", "8", "9"}

\* str.lower()
Lower(c) == CASE c = "A" -> "a" [] c = "B" -> "b" [] OTHER -> c

\* ord(c), for the comparison of terms
Ord(c) == CASE c = "0" -> 48 [] c = "1" -> 49 [] c = "2" -> 50 [] c = "3" -> 51
            [] c = "4" -> 52 [] c = "5" -> 53 [] c = "6" -> 54 [] c = "7" -> 55
            [] c = "8" -> 56 [] c = "9" -> 57 [] c = "A" -> 65 [] c = "B" -> 66
            [] c = "_" -> 95 [] c = "a" -> 97 [] c = "b" -> 98 [] OTHER -> 0

MapSeq(s, F(_)) == [i \in 1 .. Len(s) |-> F(s[i])]

RECURSIVE Concat(_)
Concat(ss) == IF ss = <<>> THEN <<>> ELSE Head(ss) \o Concat(Tail(ss))

RECURSIVE SplitAcc(_, _, _, _)
SplitAcc(s, i, cur, acc) ==
    IF i > Len(s)
    THEN IF cur = <<>> THEN acc ELSE Append(acc, cur)
    ELSE IF IsSpace(s[i])
         THEN SplitAcc(s, i + 1, <<>>, IF cur = <<>> THEN acc ELSE Append(acc, cur))
         ELSE SplitAcc(s, i + 1, Append(cur, s[i]), acc)

\* str.split(): the maximal runs of non-whitespace characters
Split(s) == SplitAcc(s, 1, <<>>, <<>>)

\* re.sub(r'[^\w\s]', '', token).lower()
Normalize(token) ==
    MapSeq(SelectSeq(token, LAMBDA c : IsWordChar(c) \/ IsSpace(c)), Lower)

\* all strings over chars of length lo .. hi
StringsOf(chars, lo, hi) == UNION {[1 .. n -> chars] : n \in lo .. hi}

\* s1 < s2 as Python compares str
RECURSIVE StrLess(_, _)
StrLess(s1, s2) ==
    IF s1 = <<>> THEN s2 # <<>>
    ELSE IF s2 = <<>> THEN FALSE
    ELSE IF Head(s1) = Head(s2) THEN StrLess(Tail(s1), Tail(s2))
    ELSE Ord(Head(s1)) < Ord(Head(s2))

\* ------------------------------------------------------------- list, dict
Contains(list, x) == \E i \in 1 .. Len(list) : list[i] = x

\* a < b under the sort key named by kind: a list of ints, the items of the
\* inverted index (by term), the items of the document index (by docId)
Less(kind, a, b) ==
    CASE kind = "int" -> a < b
      [] kind = "term" -> StrLess(a.key, b.key)
      [] kind = "id" -> a.key < b.key

RECURSIVE InsertSorted(_, _, _)
InsertSorted(list, x, kind) ==
    IF list = <<>> THEN <<x>>
    ELSE IF Less(kind, x, Head(list)) THEN <<x>> \o list
    ELSE <<Head(list)>> \o InsertSorted(Tail(list), x, kind)

\* sorted(list): stable, ascending
RECURSIVE Sorted(_, _)
Sorted(list, kind) ==
    IF list = <<>> THEN <<>>
    ELSE InsertSorted(Sorted(SubSeq(list, 1, Len(list) - 1), kind),
                      list[Len(list)], kind)

HasKey(dict, k) == \E i \in 1 .. Len(dict) : dict[i].key = k

Get(dict, k) == dict[CHOOSE i \in 1 .. Len(dict) : dict[i].key = k]

Keys(dict) == MapSeq(dict, LAMBDA e : e.key)

\* dict[k] = entry: an existing key keeps its position
Put(dict, entry) ==
    IF HasKey(dict, entry.key)
    THEN [i \in 1 .. Len(dict) |->
             IF dict[i].key = entry.key THEN entry ELSE dict[i]]
    ELSE Append(dict, entry)

\* d1 == d2 of two dicts
DictEq(d1, d2) ==
    {d1[i] : i \in 1 .. Len(d1)} = {d2[i] : i \in 1 .. Len(d2)}

\* ------------------------------------------------------------- generateIndex
\* a JSON value of a field: null, a string or a number
NoneVal == [t |-> "none", s |-> <<>>, n |-> 0]
StrVal(s) == [t |-> "str", s |-> s, n |-> 0]
IntVal(n) == [t |-> "int", s |-> <<>>, n |-> n]

ZoneNames == <<"title", "body", "abstract", "notes", "tags">>
ZoneKeys == {ZoneNames[i] : i \in 1 .. (MaxKeys - 1)}
FieldKeys == {"doc_id"} \cup ZoneKeys

ZoneVals == {NoneVal} \cup {StrVal(s) : s \in StringsOf(RawChars, 0, MaxZoneLen)}
IdVals == {NoneVal, StrVal(<<>>)} \cup {IntVal(n) : n \in DocIds}
FieldVals(key) == IF key = "doc_id" THEN IdVals ELSE ZoneVals

\* the locals of generateIndex before the loop (lines 22-24)
genInit ==
    [pc |-> "loop", docIDs |-> <<>>, index |-> <<>>, docIndex |-> <<>>,
     docId |-> None, docString |-> <<>>, nKeys |-> 0, seen |-> {},
     key |-> "", val |-> NoneVal, words |-> <<>>, err |-> "", nDocs |-> 0]

\* top of the loop over the corpus, for a document of nKeys fields
beginDoc(g, nKeys) ==
    IF nKeys <= 1
    THEN [g EXCEPT !.pc = "exit", !.err = "fewZones", !.nKeys = nKeys]
    ELSE [g EXCEPT !.pc = "field", !.docId = None, !.docString = <<>>,
                   !.nKeys = nKeys, !.seen = {}]

\* fieldStep without the check of lines 46-48: a repeated docId is accepted
fieldStepNoDuplicateCheck(g, key, val) ==
    LET g1 == [g EXCEPT !.seen = @ \cup {key}, !.key = key, !.val = val] IN
    IF val.t = "none" \/ (val.t = "str" /\ val.s = <<>>)
    THEN [g1 EXCEPT !.pc = "exit", !.err = "emptyZone"]
    ELSE IF key = "doc_id"
    THEN [g1 EXCEPT !.docId = val.n, !.docIDs = Append(@, val.n)]
    ELSE LET ws == Split(val.s) IN
         [g1 EXCEPT !.words = ws, !.pc = IF ws = <<>> THEN "field" ELSE "token"]

\* one turn of the loop over doc.keys(), up to the loop over the tokens
fieldStep(g, key, val) ==
    LET g1 == [g EXCEPT !.seen = @ \cup {key}, !.key = key, !.val = val] IN
    IF val.t = "none" \/ (val.t = "str" /\ val.s = <<>>)
    THEN [g1 EXCEPT !.pc = "exit", !.err = "emptyZone"]
    ELSE IF key = "doc_id"
    THEN IF Contains(g.docIDs, val.n)
         THEN [g1 EXCEPT !.pc = "exit", !.err = "duplicate", !.docId = val.n]
         ELSE [g1 EXCEPT !.docId = val.n, !.docIDs = Append(@, val.n)]
    ELSE LET ws == Split(val.s) IN
         [g1 EXCEPT !.words = ws, !.pc = IF ws = <<>> THEN "field" ELSE "token"]

\* list.sort() of a postings list: None and an int do not compare
sortRaises(postings) == Len(postings) >= 2 /\ Contains(postings, None)

\* addPosting without the sort of line 62
addPostingNoSort(index, token, docId) ==
    IF HasKey(index, token)
    THEN LET e == Get(index, token) IN
         IF ~ Contains(e.postings, docId)
         THEN Put(index, [key |-> token, DF |-> e.DF + 1,
                          postings |-> Append(e.postings, docId)])
         ELSE index
    ELSE Put(index, [key |-> token, DF |-> 1, postings |-> <<docId>>])

\* lines 59-66 for one non-empty token
addPosting(index, token, docId) ==
    IF HasKey(index, token)
    THEN LET e == Get(index, token) IN
         IF ~ Contains(e.postings, docId)
         THEN Put(index, [key |-> token, DF |-> e.DF + 1,
                          postings |-> Sorted(Append(e.postings, docId), "int")])
         ELSE index
    ELSE Put(index, [key |-> token, DF |-> 1, postings |-> <<docId>>])

\* the append of line 61 makes the sort of line 62 raise
addRaises(index, token, docId) ==
    /\ HasKey(index, token)
    /\ ~ Contains(Get(index, token).postings, docId)
    /\ sortRaises(Append(Get(index, token).postings, docId))

\* one turn of the loop over doc[key].split() (lines 53-66)
tokenStep(g) ==
    LET token == Normalize(Head(g.words))
        rest == Tail(g.words)
        pcNext == IF rest = <<>> THEN "field" ELSE "token"
    IN  IF token = <<>>
        THEN [g EXCEPT !.words = rest, !.pc = pcNext]
        ELSE IF addRaises(g.index, token, g.docId)
        THEN [g EXCEPT !.pc = "raise", !.err = "TypeError",
                       !.docString = @ \o token \o <<" ">>,
                       !.index = Put(@, [Get(@, token) EXCEPT
                                    !.postings = Append(@, g.docId)])]
        ELSE [g EXCEPT !.words = rest, !.pc = pcNext,
                       !.docString = @ \o token \o <<" ">>,
                       !.index = addPosting(@, token, g.docId)]

\* after the loop over the fields (lines 69-72)
endDoc(g) ==
    IF g.docId = None
    THEN [g EXCEPT !.pc = "exit", !.err = "noDocId"]
    ELSE [g EXCEPT !.pc = "loop", !.nDocs = @ + 1, !.nKeys = 0, !.seen = {},
                   !.key = "", !.val = NoneVal,
                   !.docIndex = Put(@, [key |-> g.docId, text |-> g.docString])]

\* after the loop over the corpus (lines 75-77)
finish(g) ==
    [g EXCEPT !.pc = "return", !.index = Sorted(@, "term"),
              !.docIndex = Sorted(@, "id")]

RECURSIVE tokenLoop(_)
tokenLoop(g) == IF g.pc = "token" THEN tokenLoop(tokenStep(g)) ELSE g

RECURSIVE fieldLoop(_, _, _)
fieldLoop(g, doc, i) ==
    IF g.pc # "field" \/ i > Len(doc) THEN g
    ELSE fieldLoop(tokenLoop(fieldStep(g, doc[i].key, doc[i].val)), doc, i + 1)

RECURSIVE docLoop(_, _, _)
docLoop(g, corpus, i) ==
    IF g.pc # "loop" \/ i > Len(corpus) THEN g
    ELSE LET g1 == beginDoc(g, Len(corpus[i]))
             g2 == IF g1.pc = "field" THEN fieldLoop(g1, corpus[i], 1) ELSE g1
         IN  docLoop(IF g2.pc = "field" THEN endDoc(g2) ELSE g2, corpus, i + 1)

\* generateIndex(corpus), a corpus being a sequence of documents and a
\* document a sequence of fields [key, val] in the order of doc.keys()
generateIndex(corpus) ==
    LET g == docLoop(genInit, corpus, 1) IN
    IF g.pc = "loop" THEN finish(g) ELSE g

\* ------------------------------------------------------------- index files
Digit(d) == CASE d = 0 -> "0" [] d = 1 -> "1" [] d = 2 -> "2" [] d = 3 -> "3"
              [] d = 4 -> "4" [] d = 5 -> "5" [] d = 6 -> "6" [] d = 7 -> "7"
              [] d = 8 -> "8" [] d = 9 -> "9"

DigitVal(c) == CASE c = "0" -> 0 [] c = "1" -> 1 [] c = "2" -> 2 [] c = "3" -> 3
                 [] c = "4" -> 4 [] c = "5" -> 5 [] c = "6" -> 6 [] c = "7" -> 7
                 [] c = "8" -> 8 [] c = "9" -> 9 [] OTHER -> None

RECURSIVE NatToStr(_)
NatToStr(n) == IF n < 10 THEN <<Digit(n)>>
               ELSE NatToStr(n \div 10) \o <<Digit(n % 10)>>

\* str(x) of a docId or a DF: an int, or None
Str(x) == IF x = None THEN <<"N", "o", "n", "e">> ELSE NatToStr(x)

RECURSIVE JoinSep(_, _)
JoinSep(ss, sep) ==
    IF ss = <<>> THEN <<>>
    ELSE IF Len(ss) = 1 THEN ss[1]
    ELSE ss[1] \o sep \o JoinSep(Tail(ss), sep)

\* str(postings) of a list
StrList(list) == <<"[">> \o JoinSep(MapSeq(list, Str), <<",", " ">>) \o <<"]">>

\* line 113
docLine(e) == Str(e.key) \o <<"\t">> \o e.text \o <<"\n">>

\* line 118
indexLine(e) ==
    e.key \o <<"\t">> \o Str(e.DF) \o <<"\t">> \o StrList(e.postings) \o <<"\n">>

\* the index folder: absent, or present with the text of its two files
fsInit(exists) ==
    [dir |-> exists, files |-> {}, indexFile |-> <<>>, docIndexFile |-> <<>>]

\* generateIndexFiles(indexFileLoc, indexes)
generateIndexFiles(fs, index, docIndex) ==
    IF fs.dir THEN fs
    ELSE [dir |-> TRUE, files |-> {"index.tsv", "docIndex.tsv"},
          indexFile |-> Concat(MapSeq(index, indexLine)),
          docIndexFile |-> Concat(MapSeq(docIndex, docLine))]

\* ------------------------------------------------------------- buildIndexes
\* s[lo:hi] of Python, 0-based, a negative hi counted from the end
PySlice(s, lo, hi) ==
    LET h0 == IF hi < 0 THEN hi + Len(s) ELSE hi
        h == IF h0 < 0 THEN 0 ELSE IF h0 > Len(s) THEN Len(s) ELSE h0
    IN  IF lo >= h THEN <<>> ELSE SubSeq(s, lo + 1, h)

StartsAt(s, i, sep) ==
    /\ i + Len(sep) - 1 <= Len(s)
    /\ SubSeq(s, i, i + Len(sep) - 1) = sep

RECURSIVE SplitSepAcc(_, _, _, _, _)
SplitSepAcc(s, sep, i, cur, acc) ==
    IF i > Len(s) THEN Append(acc, cur)
    ELSE IF StartsAt(s, i, sep)
         THEN SplitSepAcc(s, sep, i + Len(sep), <<>>, Append(acc, cur))
         ELSE SplitSepAcc(s, sep, i + 1, Append(cur, s[i]), acc)

\* str.split(sep)
SplitSep(s, sep) == SplitSepAcc(s, sep, 1, <<>>, <<>>)

RECURSIVE LinesAcc(_, _, _, _)
LinesAcc(s, i, cur, acc) ==
    IF i > Len(s) THEN IF cur = <<>> THEN acc ELSE Append(acc, cur)
    ELSE IF s[i] = "\n" THEN LinesAcc(s, i + 1, <<>>, Append(acc, Append(cur, s[i])))
    ELSE LinesAcc(s, i + 1, Append(cur, s[i]), acc)

\* the lines a file object iterates over, each with its newline
Lines(text) == LinesAcc(text, 1, <<>>, <<>>)

\* int(s) raises ValueError
IntRaises(s) == s = <<>> \/ \E i \in 1 .. Len(s) : DigitVal(s[i]) = None

RECURSIVE ParseInt(_)
ParseInt(s) == IF Len(s) = 1 THEN DigitVal(s[1])
          ELSE 10 * ParseInt(SubSeq(s, 1, Len(s) - 1)) + DigitVal(s[Len(s)])

\* lines 132-134: the fields of a line of index.tsv
indexFields(line) ==
    LET f == SplitSep(line, <<"\t">>) IN
    [n |-> Len(f), token |-> f[1], DF |-> f[2],
     postings |-> SplitSep(PySlice(f[3], 1, Len(f[3]) - 2), <<",", " ">>)]

indexLineRaises(line) ==
    \/ Len(SplitSep(line, <<"\t">>)) # 3
    \/ IntRaises(indexFields(line).DF)
    \/ \E i \in 1 .. Len(indexFields(line).postings) :
           IntRaises(indexFields(line).postings[i])

\* line 139
indexEntry(line) ==
    LET f == indexFields(line) IN
    [key |-> f.token, DF |-> ParseInt(f.DF), postings |-> MapSeq(f.postings, ParseInt)]

docLineRaises(line) ==
    \/ Len(SplitSep(line, <<"\t">>)) # 2
    \/ IntRaises(SplitSep(line, <<"\t">>)[1])

\* lines 143-145
docEntry(line) ==
    LET f == SplitSep(line, <<"\t">>) IN
    [key |-> ParseInt(f[1]), text |-> PySlice(f[2], 0, Len(f[2]) - 2)]

RECURSIVE PutAll(_, _)
PutAll(dict, entries) ==
    IF entries = <<>> THEN dict
    ELSE PutAll(Put(dict, Head(entries)), Tail(entries))

\* buildIndexes(indexPath) on the folder generateIndexFiles wrote
buildIndexes(fs) ==
    LET il == Lines(fs.indexFile)
        dl == Lines(fs.docIndexFile)
    IN  IF \/ \E i \in 1 .. Len(il) : indexLineRaises(il[i])
           \/ \E i \in 1 .. Len(dl) : docLineRaises(dl[i])
        THEN [pc |-> "raise", index |-> <<>>, docIndex |-> <<>>]
        ELSE [pc |-> "return",
              index |-> PutAll(<<>>, MapSeq(il, indexEntry)),
              docIndex |-> PutAll(<<>>, MapSeq(dl, docEntry))]

\* ------------------------------------------------------------- parseQuery
MaxTermLen == 3     \* characters of a query term
MaxQueryLen == 3    \* terms of a query

QueryChars == {":", "a"}

Queries == UNION {[1 .. n -> StringsOf(QueryChars, 0, MaxTermLen)] : n \in 0 .. MaxQueryLen}

RECURSIVE LStrip(_)
LStrip(s) == IF s # <<>> /\ IsSpace(Head(s)) THEN LStrip(Tail(s)) ELSE s

RECURSIVE RStrip(_)
RStrip(s) == IF s # <<>> /\ IsSpace(s[Len(s)])
             THEN RStrip(SubSeq(s, 1, Len(s) - 1)) ELSE s

\* str.strip()
Strip(s) == LStrip(RStrip(s))

\* the locals of parseQuery before the loop (lines 162-165)
parseInit(query) ==
    [pc |-> "loop", query |-> query, i |-> 1, keywords |-> <<>>,
     phrases |-> <<>>, phrase |-> <<>>, isPhrase |-> FALSE]

\* lines 170-179: a term that begins with the delimiter
delimiterStep(q, term) ==
    IF term[1] # ":" THEN q
    ELSE LET q1 == [q EXCEPT !.isPhrase = ~ @]
             q2 == IF ~ q1.isPhrase
                   THEN [q1 EXCEPT !.phrases = Append(@, Strip(q.phrase)),
                                   !.phrase = <<>>]
                   ELSE q1
         IN  IF Len(term) = 1 THEN [q2 EXCEPT !.pc = "exit"] ELSE q2

\* accumulateStep without line 195: a closed phrase leaves the mode inside
accumulateStepNoReset(q, term) ==
    IF q.isPhrase
    THEN IF term[1] = ":"
         THEN IF term[Len(term)] = ":"
              THEN [q EXCEPT !.phrases =
                                 Append(@, Strip(PySlice(term, 1, Len(term) - 1))),
                             !.phrase = <<>>]
              ELSE [q EXCEPT !.phrase = @ \o PySlice(term, 1, Len(term)) \o <<" ">>]
         ELSE IF term[Len(term)] = ":"
         THEN [q EXCEPT !.phrases =
                   Append(@, Strip(q.phrase \o PySlice(term, 0, Len(term) - 1)
                                            \o <<" ">>)),
                        !.phrase = <<>>]
         ELSE [q EXCEPT !.phrase = @ \o term \o <<" ">>]
    ELSE [q EXCEPT !.keywords = Append(@, term)]

\* lines 180-201: the term goes to the phrase or to the keywords
accumulateStep(q, term) ==
    IF q.isPhrase
    THEN IF term[1] = ":"
         THEN IF term[Len(term)] = ":"
              THEN [q EXCEPT !.phrases =
                                 Append(@, Strip(PySlice(term, 1, Len(term) - 1))),
                             !.phrase = <<>>]
              ELSE [q EXCEPT !.phrase = @ \o PySlice(term, 1, Len(term)) \o <<" ">>]
         ELSE IF term[Len(term)] = ":"
         THEN [q EXCEPT !.phrases =
                   Append(@, Strip(q.phrase \o PySlice(term, 0, Len(term) - 1)
                                            \o <<" ">>)),
                        !.phrase = <<>>, !.isPhrase = FALSE]
         ELSE [q EXCEPT !.phrase = @ \o term \o <<" ">>]
    ELSE [q EXCEPT !.keywords = Append(@, term)]

\* one turn of the loop over the query (lines 168-201)
parseStep(q) ==
    LET term == q.query[q.i] IN
    IF term = <<>> THEN [q EXCEPT !.pc = "raise"]
    ELSE LET q1 == delimiterStep(q, term) IN
         IF q1.pc = "exit" THEN q1
         ELSE [accumulateStep(q1, term) EXCEPT !.i = @ + 1]

\* ------------------------------------------------------------- getPhraseResults
\* needle in haystack, of two str
IsSubstring(needle, haystack) ==
    \E i \in 1 .. Len(haystack) + 1 : StartsAt(haystack, i, needle)

\* lines 81-88: the documents left by the loop over the terms of a phrase,
\* from the term at position i on
RECURSIVE intersectTerms(_, _, _, _)
intersectTerms(index, terms, i, docs) ==
    IF i > Len(terms) THEN docs
    ELSE IF ~ HasKey(index, terms[i]) THEN docs
    ELSE intersectTerms(index, terms, i + 1,
                        docs \cap {Get(index, terms[i]).postings[k] :
                                      k \in 1 .. Len(Get(index, terms[i]).postings)})

\* the documents the loop of lines 90-97 iterates over for a phrase
phraseDocs(index, docIndex, phrase) ==
    intersectTerms(index, Split(phrase), 1,
                   {docIndex[k].key : k \in 1 .. Len(docIndex)})

\* line 92: the document contains the entire phrase
phraseMatches(docIndex, phrase, doc) ==
    IsSubstring(Strip(phrase), Get(docIndex, doc).text)

\* sorted(list(S)) of a set of ints
RECURSIVE SortedSet(_)
SortedSet(S) ==
    IF S = {} THEN <<>>
    ELSE LET m == CHOOSE x \in S : \A y \in S : x <= y
         IN  <<m>> \o SortedSet(S \ {m})

\* getPhraseResults(index, docIndex, phrases)
getPhraseResults(index, docIndex, phrases) ==
    IF Len(phrases) = 0
    THEN [docs |-> SortedSet({docIndex[k].key : k \in 1 .. Len(docIndex)}),
          considered |-> Len(docIndex)]
    ELSE [docs |-> SortedSet({d \in UNION {phraseDocs(index, docIndex, phrases[i]) :
                                              i \in 1 .. Len(phrases)} :
                                 \E i \in 1 .. Len(phrases) :
                                     /\ d \in phraseDocs(index, docIndex, phrases[i])
                                     /\ phraseMatches(docIndex, phrases[i], d)}),
          considered |-> Cardinality(UNION {phraseDocs(index, docIndex, phrases[i]) :
                                               i \in 1 .. Len(phrases)})]

\* ------------------------------------------------------------- cosineScore
\* a score is the fraction num / den, den > 0
RECURSIVE InsertByScore(_, _)
InsertByScore(list, x) ==
    IF list = <<>> THEN <<x>>
    ELSE IF x.num * Head(list).den > Head(list).num * x.den THEN <<x>> \o list
    ELSE <<Head(list)>> \o InsertByScore(Tail(list), x)

\* sorted(items, key = score, reverse = True): stable, descending
RECURSIVE SortedByScore(_)
SortedByScore(list) ==
    IF list = <<>> THEN <<>>
    ELSE InsertByScore(SortedByScore(SubSeq(list, 1, Len(list) - 1)),
                       list[Len(list)])

\* line 27: the number of terms of the document
docLength(docIndex, doc) == Len(Split(Get(docIndex, doc).text))

\* lines 29-43: how many entries of keywords have doc in their postings;
\* each adds termWeight = 1 / len(keywords)
termHits(index, keywords, doc) ==
    Cardinality({i \in 1 .. Len(keywords) :
                    /\ HasKey(index, keywords[i])
                    /\ Contains(Get(index, keywords[i]).postings, doc)})

\* line 48 raises ZeroDivisionError
scoreRaises(docIndex, docs) ==
    \E i \in 1 .. Len(docs) : docLength(docIndex, docs[i]) = 0

\* lines 45-48: scores[doc] / lengths[doc], in the order of docs
allScores(index, docIndex, keywords, docs) ==
    [i \in 1 .. Len(docs) |->
        [doc |-> docs[i],
         num |-> termHits(index, keywords, docs[i]),
         den |-> Len(keywords) * docLength(docIndex, docs[i])]]

\* line 50: sorted descending, the zero scores dropped
rankedScores(scores) ==
    SelectSeq(SortedByScore(scores), LAMBDA e : e.num > 0)

\* topResults with the slice one entry too long
topResultsOneMore(ranked, numResults) ==
    SubSeq(ranked, 1,
           IF numResults + 1 < Len(ranked) THEN numResults + 1 ELSE Len(ranked))

\* line 53: the first numResults entries
topResults(ranked, numResults) ==
    SubSeq(ranked, 1, IF numResults < Len(ranked) THEN numResults ELSE Len(ranked))

\* cosineScore(index, docIndex, keywords, docs, numResults)
cosineScore(index, docIndex, keywords, docs, numResults) ==
    IF scoreRaises(docIndex, docs)
    THEN [pc |-> "raise", scores |-> <<>>, docCount |-> 0]
    ELSE LET ranked == rankedScores(allScores(index, docIndex, keywords, docs))
         IN  [pc |-> "return", scores |-> topResults(ranked, numResults),
              docCount |-> Len(ranked)]

\* ------------------------------------------------------------- state
VARIABLES
    g,      \* generateIndex: its locals and its position
    fs,     \* the index folder on disk
    rd,     \* what buildIndexes returned
    q,      \* parseQuery: its locals and its position
    qs      \* main of query.py after parseQuery and buildIndexes

vars == <<g, fs, rd, q, qs>>

qsInit ==
    [pc |-> "start", phrases |-> <<>>, keywords |-> <<>>, numResults |-> 0,
     docs |-> <<>>, considered |-> 0, scores |-> <<>>, docCount |-> 0]

rdInit == [pc |-> "none", index |-> <<>>, docIndex |-> <<>>]

\* ------------------------------------------------------------- index.py
BeginDoc ==
    /\ g.pc = "loop"
    /\ g.nDocs < MaxDocs
    /\ \E n \in 0 .. MaxKeys : g' = beginDoc(g, n)
    /\ UNCHANGED <<fs, rd, q, qs>>

NextField ==
    /\ g.pc = "field"
    /\ Cardinality(g.seen) < g.nKeys
    /\ \E key \in FieldKeys \ g.seen : \E val \in FieldVals(key) :
           g' = fieldStep(g, key, val)
    /\ UNCHANGED <<fs, rd, q, qs>>

ProcessToken ==
    /\ g.pc = "token"
    /\ g' = tokenStep(g)
    /\ UNCHANGED <<fs, rd, q, qs>>

EndDoc ==
    /\ g.pc = "field"
    /\ Cardinality(g.seen) = g.nKeys
    /\ g' = endDoc(g)
    /\ UNCHANGED <<fs, rd, q, qs>>

Return ==
    /\ g.pc = "loop"
    /\ g' = finish(g)
    /\ UNCHANGED <<fs, rd, q, qs>>

\* buildIndex, line 144, once generateIndex has returned
GenerateIndexFiles ==
    /\ g.pc = "return"
    /\ fs' = generateIndexFiles(fs, g.index, g.docIndex)
    /\ g' = [g EXCEPT !.pc = IF fs.dir THEN "refused" ELSE "written"]
    /\ UNCHANGED <<rd, q, qs>>

\* query.py reads the folder back
BuildIndexes ==
    /\ g.pc = "written"
    /\ rd.pc = "none"
    /\ rd' = buildIndexes(fs)
    /\ UNCHANGED <<g, fs, q, qs>>

InitBuild ==
    /\ g = genInit
    /\ fs \in {fsInit(TRUE), fsInit(FALSE)}
    /\ rd = rdInit
    /\ q = parseInit(<<>>)
    /\ qs = qsInit

NextBuild ==
    \/ BeginDoc
    \/ NextField
    \/ ProcessToken
    \/ EndDoc
    \/ Return
    \/ GenerateIndexFiles
    \/ BuildIndexes

SpecBuild == InitBuild /\ [][NextBuild]_vars

\* ------------------------------------------------------------- claims on the build
Elems(list) == {list[i] : i \in 1 .. Len(list)}

StrictlyAscending(list) ==
    \A i \in 1 .. Len(list) : \A j \in 1 .. Len(list) : i < j => list[i] < list[j]

NoDuplicates(list) ==
    \A i \in 1 .. Len(list) : \A j \in 1 .. Len(list) : i # j => list[i] # list[j]

generateIndexReturned == g.pc \in {"return", "written", "refused"}

\* C1: once generateIndex has returned, a document's identifier is in the
\* postings of a term exactly when the term is one of the tokens of the
\* document's normalizedText, and the postings hold only identifiers that are
\* keys of the document index.
C1_PostingsAreTheDocumentsTokens ==
    generateIndexReturned =>
        /\ \A d \in Elems(g.docIndex) : \A t \in Elems(Split(d.text)) :
               HasKey(g.index, t)
        /\ \A e \in Elems(g.index) : \A d \in Elems(g.docIndex) :
               Contains(e.postings, d.key) <=> Contains(Split(d.text), e.key)
        /\ \A e \in Elems(g.index) :
               Elems(e.postings) \subseteq Elems(Keys(g.docIndex))

\* C2: what buildIndexes reads back from the files generateIndexFiles wrote
\* equals the pair generateIndex returned: same terms, DF and postings, and
\* for every documentId the same normalizedText.
C2_RoundTrip ==
    rd.pc = "return" =>
        /\ DictEq(rd.index, g.index)
        /\ DictEq(rd.docIndex, g.docIndex)

\* what the validation rules reject, read off the document being processed
violationMet ==
    \/ g.pc \in {"field", "token"} /\ g.nKeys <= 1
    \/ g.pc \in {"field", "token"} /\ g.seen # {}
         /\ (g.val.t = "none" \/ (g.val.t = "str" /\ g.val.s = <<>>))
    \/ ~ NoDuplicates(g.docIDs)
    \/ \E d \in Elems(g.docIndex) : d.key = None

postingsWellFormed(index) ==
    \A e \in Elems(index) :
        /\ e.DF = Len(e.postings)
        /\ StrictlyAscending(e.postings)

postingsGrow(index, indexNext) ==
    \A e \in Elems(index) :
        /\ HasKey(indexNext, e.key)
        /\ Elems(e.postings) \subseteq Elems(Get(indexNext, e.key).postings)
        /\ e.DF <= Get(indexNext, e.key).DF

\* C10: after every processed token, for every term of the inverted index,
\* DF is the length of the postings and the postings are strictly ascending
\* without duplicates; and no step removes a posting or decreases a DF.
C10_PostingsInvariant ==
    /\ [](g.pc # "raise" => postingsWellFormed(g.index))
    /\ [][g'.pc # "raise" => postingsGrow(g.index, g'.index)]_vars

\* a second identifier, smaller than the first, was added to a term's postings
C10_Witness ==
    /\ g.pc \in {"field", "token"}
    /\ \E e \in Elems(g.index) : e.postings = <<9, 10>> /\ e.DF = 2
    /\ g.docIDs = <<10, 9>>

\* ------------------------------------------------------------- query.py: parseQuery
ParseTerm ==
    /\ q.pc = "loop"
    /\ q.i <= Len(q.query)
    /\ q' = parseStep(q)
    /\ UNCHANGED <<g, fs, rd, qs>>

ParseReturn ==
    /\ q.pc = "loop"
    /\ q.i > Len(q.query)
    /\ q' = [q EXCEPT !.pc = "return"]
    /\ UNCHANGED <<g, fs, rd, qs>>

InitParse ==
    /\ g = genInit
    /\ fs = fsInit(FALSE)
    /\ rd = rdInit
    /\ \E query \in Queries : q = parseInit(query)
    /\ qs = qsInit

NextParse ==
    \/ ParseTerm
    \/ ParseReturn

SpecParse == InitParse /\ [][NextParse]_vars

\* ------------------------------------------------------------- claims on parseQuery
\* a term of length at least 3 wrapped on both ends by the delimiter
isWrapped(term) == Len(term) >= 3 /\ term[1] = ":" /\ term[Len(term)] = ":"

\* a term that carries no delimiter at either end
isPlain(term) == term # <<>> /\ term[1] # ":" /\ term[Len(term)] # ":"

isOpening(term) == Len(term) >= 2 /\ term[1] = ":" /\ term[Len(term)] # ":"

isClosing(term) == Len(term) >= 2 /\ term[1] # ":" /\ term[Len(term)] = ":"

parsing == q.pc = "loop" /\ q.i <= Len(q.query)

\* C5: a single-token phrase is appended to phrases at once, its delimiters
\* removed, and leaves the inside/outside mode as it was before the term.
C5_SingleTokenPhraseKeepsMode ==
    [][parsing /\ isWrapped(q.query[q.i]) =>
          /\ q'.phrases = Append(q.phrases,
                                 SubSeq(q.query[q.i], 2, Len(q.query[q.i]) - 1))
          /\ q'.isPhrase = q.isPhrase
          /\ q'.keywords = q.keywords]_vars

\* the opening terms minus the closing terms among the first i terms
openCount(query, i) ==
    Cardinality({k \in 1 .. i : isOpening(query[k])})
        - Cardinality({k \in 1 .. i : isClosing(query[k])})

\* undelimited terms and multi-token phrases only, every phrase closed
wellFormed(query) ==
    /\ \A k \in 1 .. Len(query) :
           \/ isPlain(query[k])
           \/ isOpening(query[k]) /\ openCount(query, k - 1) = 0
           \/ isClosing(query[k]) /\ openCount(query, k - 1) = 1
    /\ openCount(query, Len(query)) = 0

Pick(list, keep(_)) ==
    LET F[i \in 0 .. Len(list)] ==
            IF i = 0 THEN <<>>
            ELSE IF keep(i) THEN Append(F[i - 1], list[i]) ELSE F[i - 1]
    IN  F[Len(list)]

\* the terms lying outside the phrases, in input order
expectedKeywords(query) ==
    Pick(query, LAMBDA k : isPlain(query[k]) /\ openCount(query, k) = 0)

\* the phrase opened at term k: its terms without the two delimiters
phraseFrom(query, k) ==
    LET j == CHOOSE j \in k + 1 .. Len(query) :
                 /\ isClosing(query[j])
                 /\ \A m \in k + 1 .. j - 1 : ~ isClosing(query[m])
        terms == [m \in 1 .. j - k + 1 |->
                     IF m = 1 THEN Tail(query[k])
                     ELSE IF m = j - k + 1
                     THEN SubSeq(query[j], 1, Len(query[j]) - 1)
                     ELSE query[k + m - 1]]
    IN  Strip(JoinSep(terms, <<" ">>))

expectedPhrases(query) ==
    LET opens == Pick([k \in 1 .. Len(query) |-> k],
                      LAMBDA k : isOpening(query[k]))
    IN  [n \in 1 .. Len(opens) |-> phraseFrom(query, opens[n])]

MaxQDocs == 3       \* documents of an indexed corpus
MaxQZoneLen == 4    \* characters of a zone's content
MaxPhrases == 2     \* phrases of a query
MaxPhraseLen == 3   \* characters of a phrase
MaxKeywords == 2    \* keywords of a query outside its phrases
MaxKeywordLen == 2  \* characters of a keyword
MaxResults == 2     \* the number of results asked for

Trimmed(strings) == {s \in strings : s[1] # " " /\ s[Len(s)] # " "}

\* a zone of one or more terms, or one that normalizes to no term
QueryZones == Trimmed(StringsOf({"a", " "}, 1, MaxQZoneLen)) \cup {<<"!">>}

\* the k-th document's identifier: not in ascending order
QueryDocId(k) == IF k = 1 THEN 10 ELSE IF k = 2 THEN 9 ELSE 8 + k

\* the corpus whose k-th document is {"doc_id": QueryDocId(k), "title": zones[k]}
corpusOf(zones) ==
    [k \in 1 .. Len(zones) |->
        <<[key |-> "doc_id", val |-> IntVal(QueryDocId(k))],
          [key |-> "title", val |-> StrVal(zones[k])]>>]

QueryCorpora ==
    {corpusOf(zones) : zones \in UNION {[1 .. n -> QueryZones] : n \in 0 .. MaxQDocs}}

PhraseLists ==
    UNION {[1 .. n -> Trimmed(StringsOf({"a", " "}, 1, MaxPhraseLen))]
              : n \in 0 .. MaxPhrases}

KeywordLists ==
    UNION {[1 .. n -> StringsOf({"a"}, 1, MaxKeywordLen)] : n \in 0 .. MaxKeywords}

\* lines 242-246: the phrase terms join the keywords, then getPhraseResults
GetPhraseResults ==
    /\ qs.pc = "start"
    /\ rd.pc = "return"
    /\ \E phrases \in PhraseLists : \E keywords \in KeywordLists :
           LET r == getPhraseResults(rd.index, rd.docIndex, phrases) IN
           qs' = [qs EXCEPT !.pc = "phrased", !.phrases = phrases,
                            !.keywords = keywords \o Concat(MapSeq(phrases, Split)),
                            !.docs = r.docs, !.considered = r.considered]
    /\ UNCHANGED <<g, fs, rd, q>>

\* line 248
CosineScore ==
    /\ qs.pc = "phrased"
    /\ \E numResults \in 1 .. MaxResults :
           LET r == cosineScore(rd.index, rd.docIndex, qs.keywords, qs.docs,
                                numResults) IN
           qs' = [qs EXCEPT !.pc = IF r.pc = "raise" THEN "raise" ELSE "scored",
                            !.numResults = numResults, !.scores = r.scores,
                            !.docCount = r.docCount]
    /\ UNCHANGED <<g, fs, rd, q>>

\* the index folder of a corpus, built by index.py and read back
InitQuery ==
    /\ \E corpus \in QueryCorpora :
           LET built == generateIndex(corpus) IN
           /\ g = [built EXCEPT !.pc = "written"]
           /\ fs = generateIndexFiles(fsInit(FALSE), built.index, built.docIndex)
    /\ rd = buildIndexes(fs)
    /\ q = parseInit(<<>>)
    /\ qs = qsInit

NextQuery ==
    \/ GetPhraseResults
    \/ CosineScore

SpecQuery == InitQuery /\ [][NextQuery]_vars

\* ------------------------------------------------------------- claims on the query
phrased == qs.pc = "phrased" /\ qs.phrases # <<>>

allTermsIndexed(phrase) ==
    \A t \in Elems(Split(phrase)) : HasKey(rd.index, t)

\* C3: a phrase with a term absent from the inverted index adds no document:
\* every document returned for a non-empty phrase list is in the postings of
\* all the terms of some phrase whose terms are all in the index.
C3_AbsentTermPhraseAddsNothing ==
    phrased =>
        \A d \in Elems(qs.docs) : \E i \in 1 .. Len(qs.phrases) :
            /\ allTermsIndexed(qs.phrases[i])
            /\ \A t \in Elems(Split(qs.phrases[i])) :
                   Contains(Get(rd.index, t).postings, d)

\* the terms occur in the text as whole terms at consecutive positions
termsAdjacentIn(terms, textTerms) ==
    \E k \in 0 .. Len(textTerms) - Len(terms) :
        \A j \in 1 .. Len(terms) : textTerms[k + j] = terms[j]

\* C4: a document is returned for a non-empty phrase list only if the terms
\* of some phrase occur in its normalizedText as whole terms at consecutive
\* positions, in the phrase's order.
C4_PhraseTermsAdjacent ==
    phrased =>
        \A d \in Elems(qs.docs) : \E i \in 1 .. Len(qs.phrases) :
            termsAdjacentIn(Split(qs.phrases[i]),
                            Split(Get(rd.docIndex, d).text))

\* the same, for the phrases whose terms are all in the inverted index
C4_IndexedPhraseTermsAdjacent ==
    phrased /\ (\A i \in 1 .. Len(qs.phrases) : allTermsIndexed(qs.phrases[i])) =>
        \A d \in Elems(qs.docs) : \E i \in 1 .. Len(qs.phrases) :
            termsAdjacentIn(Split(qs.phrases[i]),
                            Split(Get(rd.docIndex, d).text))

\* rawScore / documentLength of a candidate, as the fraction num / den
expectedScore(d) ==
    [num |-> Cardinality({i \in 1 .. Len(qs.keywords) :
                             /\ HasKey(rd.index, qs.keywords[i])
                             /\ Contains(Get(rd.index, qs.keywords[i]).postings, d)}),
     den |-> Len(qs.keywords) * Len(Split(Get(rd.docIndex, d).text))]

sameScore(a, b) == a.num * b.den = b.num * a.den
higherScore(a, b) == a.num * b.den > b.num * a.den

\* d1 is ranked before d2: a higher score, or the same and the smaller docId
ranksBefore(d1, d2) ==
    \/ higherScore(expectedScore(d1), expectedScore(d2))
    \/ sameScore(expectedScore(d1), expectedScore(d2)) /\ d1 < d2

positiveDocs == {d \in Elems(qs.docs) : expectedScore(d).num > 0}

\* C7: for a non-empty keyword list cosineScore completes, whatever the
\* documents are (one with no term included), and scores every candidate
\* rawScore / documentLength.
C7_CosineScoreCompletes ==
    qs.pc \in {"scored", "raise"} /\ qs.keywords # <<>> =>
        /\ qs.pc = "scored"
        /\ \A i \in 1 .. Len(qs.scores) :
               sameScore(qs.scores[i], expectedScore(qs.scores[i].doc))
        /\ qs.docCount = Cardinality(positiveDocs)

\* C8: the ranked list has at most K entries, all of them candidates with a
\* positive score, in descending order of score with ties in ascending docId
\* order; it is the first min(K, count) entries of the full ranking; and the
\* count returned is the number of candidates with a positive score.
C8_TopK ==
    qs.pc = "scored" =>
        LET r == qs.scores
            returned == {r[i].doc : i \in 1 .. Len(r)}
        IN  /\ Len(r) <= qs.numResults
            /\ Len(r) = IF qs.numResults < qs.docCount
                        THEN qs.numResults ELSE qs.docCount
            /\ returned \subseteq positiveDocs
            /\ \A i \in 1 .. Len(r) : sameScore(r[i], expectedScore(r[i].doc))
            /\ \A i \in 1 .. Len(r) : \A j \in 1 .. Len(r) :
                   i < j => ranksBefore(r[i].doc, r[j].doc)
            /\ \A d \in positiveDocs \ returned : \A i \in 1 .. Len(r) :
                   ranksBefore(r[i].doc, d)
            /\ qs.docCount = Cardinality(positiveDocs)

\* three candidates score, two are asked for: the sort moved document 10
\* before document 9, and document 11, which ties with 9, is cut
C8_Witness ==
    /\ qs.pc = "scored"
    /\ qs.numResults = 2
    /\ qs.docCount = 3
    /\ Len(qs.scores) = 2
    /\ qs.scores[1].doc = 10
    /\ qs.scores[2].doc = 9
    /\ sameScore(expectedScore(9), expectedScore(11))

====
